---- MODULE Spec2Model ----
(***************************************************************************)
(* Pizarra de hospitalizacion (src/app.py): a Streamlit page that loads a  *)
(* published spreadsheet as CSV through a 60-second cache, cleans it and   *)
(* renders bed-occupancy counters, a free-bed panel, a styled patient      *)
(* table and a per-doctor table.                                           *)
(*                                                                         *)
(* Text is a sequence of one-character strings, so that strip, upper and   *)
(* substring search are computed and not assumed.  A cell of a table is a  *)
(* record of one shape for text, numbers and NaN.  Numbers are kept in     *)
(* tenths (621.5 is 6215): the bed texts drawn below carry at most one     *)
(* fractional digit.                                                       *)
(***************************************************************************)
EXTENDS Integers, Sequences, FiniteSets, TLC

VARIABLES sheet, netUp, cache, lock, pc, local, view

vars == <<sheet, netUp, cache, lock, pc, local, view>>

(***************************************************************************)
(* Bounds of the model.                                                    *)
(***************************************************************************)
\* free-form rows appended to the census of a drawn spreadsheet
MaxRows == 1
\* browser sessions rendering the page concurrently
NSessions == 2

Sessions == 1..NSessions

(***************************************************************************)
(* Text helpers.                                                           *)
(***************************************************************************)
Lower == <<"a","b","c","d","e","f","g","h","i","j","k","l","m",
           "n","o","p","q","r","s","t","u","v","w","x","y","z">>

Capital == <<"A","B","C","D","E","F","G","H","I","J","K","L","M",
             "N","O","P","Q","R","S","T","U","V","W","X","Y","Z">>

Digits == <<"0","1","2","3","4","5","6","7","8","9">>

UpperMap == [c \in { Lower[i] : i \in 1..Len(Lower) } |->
               Capital[CHOOSE i \in 1..Len(Lower) : Lower[i] = c]]

UpperChar(c) == IF c \in DOMAIN UpperMap THEN UpperMap[c] ELSE c

\* str.upper()
Upper(s) == [i \in 1..Len(s) |-> UpperChar(s[i])]

RECURSIVE LStrip(_)
LStrip(s) == IF s # <<>> /\ Head(s) = " " THEN LStrip(Tail(s)) ELSE s

RECURSIVE RStrip(_)
RStrip(s) ==
  IF s # <<>> /\ s[Len(s)] = " " THEN RStrip(SubSeq(s, 1, Len(s) - 1)) ELSE s

\* str.strip()
Strip(s) == RStrip(LStrip(s))

\* sub in s
Contains(s, sub) ==
  \E i \in 1..(Len(s) - Len(sub) + 1) : SubSeq(s, i, i + Len(sub) - 1) = sub

DigitMap == [c \in { Digits[i] : i \in 1..Len(Digits) } |->
               (CHOOSE i \in 1..Len(Digits) : Digits[i] = c) - 1]

IsDigit(c) == c \in DOMAIN DigitMap

DigitVal(c) == DigitMap[c]

RECURSIVE DigitsVal(_)
DigitsVal(s) ==
  IF s = <<>> THEN 0 ELSE 10 * DigitsVal(SubSeq(s, 1, Len(s) - 1)) + DigitVal(s[Len(s)])

AllDigits(s) == \A i \in 1..Len(s) : IsDigit(s[i])

DotAt(s) == IF \E i \in 1..Len(s) : s[i] = "."
            THEN CHOOSE i \in 1..Len(s) : s[i] = "."
            ELSE 0

\* The number parser behind read_csv's type inference and pd.to_numeric, on
\* the texts [digits] and [digits].[digit]: whether the text is a number.
IsNumeric(s) ==
  LET d == DotAt(s) IN
  IF d = 0
  THEN s # <<>> /\ AllDigits(s)
  ELSE /\ d > 1
       /\ AllDigits(SubSeq(s, 1, d - 1))
       /\ Len(s) = d + 1
       /\ IsDigit(s[Len(s)])

\* ... and its value, in tenths.
NumValue(s) ==
  LET d == DotAt(s) IN
  IF d = 0 THEN 10 * DigitsVal(s)
  ELSE 10 * DigitsVal(SubSeq(s, 1, d - 1)) + DigitVal(s[Len(s)])

(***************************************************************************)
(* Column names and the keywords the page searches for.                    *)
(***************************************************************************)
CAMA == <<"C","A","M","A">>
ESP == <<"E","S","P">>
PACIENTE == <<"P","A","C","I","E","N","T","E">>
EVAT == <<"E","V","A","T">>
MEDICO == <<"M","E","D","I","C","O">>
MOTIVO == <<"M","O","T","I","V","O">>
ESTANCIA == <<"E","S","T","A","N","C","I","A">>
INGRESO == <<"I","N","G","R","E","S","O">>
INGRESO_POR == <<"I","N","G","R","E","S","O"," ","P","O","R">>
ESTANCIA_HOSPITALARIA ==
  <<"E","S","T","A","N","C","I","A"," ","H","O","S","P","I","T","A","L","A","R","I","A">>
FECHA_DE_INGRESO ==
  <<"F","E","C","H","A"," ","D","E"," ","I","N","G","R","E","S","O">>

HEM == <<"H","E","M">>
ONC == <<"O","N","C">>
VERDE == <<"V","E","R","D","E">>
ROJO == <<"R","O","J","O">>
AMARILLO == <<"A","M","A","R","I","L","L","O">>

(***************************************************************************)
(* Cells and tables.                                                       *)
(***************************************************************************)
Txt(s) == [k |-> "str", s |-> s, n |-> 0]
Num(n) == [k |-> "num", s |-> <<>>, n |-> n]
NaN == [k |-> "nan", s |-> <<>>, n |-> 0]

IsNa(c) == c.k = "nan"

\* pd.DataFrame(): no columns, no rows
EmptyFrame == [columns |-> <<>>, dtypes |-> <<>>, rows |-> <<>>]

\* df.empty: an axis of length 0
IsEmpty(df) == Len(df.columns) = 0 \/ Len(df.rows) = 0

HasColumn(df, name) == \E i \in 1..Len(df.columns) : df.columns[i] = name

ColumnIndex(df, name) == CHOOSE i \in 1..Len(df.columns) : df.columns[i] = name

\* df[name], as the sequence of its cells
Column(df, name) ==
  LET i == ColumnIndex(df, name) IN [r \in 1..Len(df.rows) |-> df.rows[r][i]]

(***************************************************************************)
(* The published spreadsheet: what the URL serves.  header and rows hold   *)
(* the raw text of the CSV; malformed marks a body pd.read_csv cannot      *)
(* parse.                                                                  *)
(***************************************************************************)
RECURSIVE NatText(_)
NatText(n) ==
  IF n < 10 THEN <<Digits[n + 1]>> ELSE NatText(n \div 10) \o <<Digits[(n % 10) + 1]>>

EvatSamples ==
  << <<"V","E","R","D","E">>,
     <<"r","o","j","o"," ","l","e","v","e">>,
     <<"A","m","a","r","i","l","l","o">>,
     <<>>,
     <<"r","o","j","o"," ","v","e","r","d","e">>,
     <<"a","z","u","l">>,
     <<"a","m","a","r","i","l","l","o","/","R","O","J","O">> >>

EspSamples ==
  << <<"H","E","M","-","A">>, <<"o","n","c">>, <<"C","A","R","D","I","O">>, <<"O","n","c","o">> >>

MedicoSamples == << <<"D","R"," ","A">>, <<"D","R"," ","B">>, <<"D","R"," ","A">> >>

Pick(samples, i) == samples[(i % Len(samples)) + 1]

\* the bed range of the ward, range(621, 643)
PrimeraCama == 621
FinRango == 643

rango_camas == PrimeraCama..(FinRango - 1)

\* A ward census: k well-formed rows on the first k beds of the range.
Census(k) ==
  [i \in 1..k |->
     [cama |-> NatText(PrimeraCama + i - 1),
      esp |-> Pick(EspSamples, i),
      paciente |-> <<"P">> \o NatText(i),
      evat |-> Pick(EvatSamples, i),
      medico |-> Pick(MedicoSamples, i),
      motivo |-> <<"Q","T">>]]

CensusSizes == {0, Cardinality(rango_camas) - 1}

\* Free-form rows: a name or none, a bed text that is empty, in range, out of
\* range, not a number or fractional, a specialty or none, a doctor or none.
CamaTexts ==
  { <<>>, NatText(FinRango - 1), <<"7","0","0">>, <<"6","a">>,
    NatText(FinRango - 2) \o <<".","5">> }

FreeRows ==
  [cama : CamaTexts,
   esp : { <<>>, <<"o","n","c">> },
   paciente : { <<>>, <<"A","N","A">> },
   evat : { <<"V","e","r","d","e">> },
   medico : { <<>>, <<"D","R"," ","A">> },
   motivo : { <<"Q","T">> }]

RECURSIVE SeqsUpTo(_, _)
SeqsUpTo(S, n) ==
  IF n = 0 THEN { <<>> }
  ELSE LET shorter == SeqsUpTo(S, n - 1) IN
       shorter \cup { Append(q, x) : q \in { p \in shorter : Len(p) = n - 1 }, x \in S }

\* Header variants: which field each column carries and the header text it
\* is published under.
HeaderCanonical ==
  << <<"cama", CAMA>>, <<"esp", ESP>>, <<"paciente", PACIENTE>>,
     <<"evat", EVAT>>, <<"medico", MEDICO>> >>

HeaderDecorated ==
  << <<"cama", <<" ","c","a","m","a">> >>, <<"esp", <<"E","s","p"," ">> >>,
     <<"paciente", <<"P","a","c","i","e","n","t","e">> >>,
     <<"evat", <<"e","v","a","t">> >>,
     <<"medico", <<" ","M","e","d","i","c","o"," ">> >>,
     <<"motivo", <<"I","n","g","r","e","s","o"," ","p","o","r">> >> >>

Without(h, field) == SelectSeq(h, LAMBDA c : c[1] # field)

HeaderNombre ==
  [i \in 1..Len(HeaderCanonical) |->
     IF HeaderCanonical[i][1] = "paciente"
     THEN <<"paciente", <<"N","O","M","B","R","E">> >>
     ELSE HeaderCanonical[i]]

HeaderVariants ==
  { HeaderCanonical, HeaderDecorated, HeaderNombre,
    Without(HeaderCanonical, "esp"), Without(HeaderCanonical, "cama"),
    Without(HeaderCanonical, "medico"), Without(HeaderCanonical, "evat") }

MakeSheet(h, logical) ==
  [malformed |-> FALSE,
   header |-> [i \in 1..Len(h) |-> h[i][2]],
   rows |-> [r \in 1..Len(logical) |-> [i \in 1..Len(h) |-> logical[r][h[i][1]]]]]

Malformed == [malformed |-> TRUE, header |-> <<>>, rows |-> <<>>]

\* the spreadsheets the bed board is checked on
BoardSheets ==
  { MakeSheet(h, Census(k) \o extra) :
      h \in HeaderVariants, k \in CensusSizes, extra \in SeqsUpTo(FreeRows, MaxRows) }

(***************************************************************************)
(* load_data: fetch, parse, clean.                                         *)
(***************************************************************************)
\* the empty field is what read_csv reads as NaN
IsNaText(s) == s = <<>>

\* read_csv's type inference: a column whose fields are all numbers or
\* missing is numeric, any other is object (text)
InferDtype(sh, i) ==
  IF Len(sh.rows) > 0 /\ \A r \in 1..Len(sh.rows) :
                          IsNaText(sh.rows[r][i]) \/ IsNumeric(sh.rows[r][i])
  THEN "float64" ELSE "object"

ReadCell(s, dtype) ==
  IF IsNaText(s) THEN NaN
  ELSE IF dtype = "float64" THEN Num(NumValue(s)) ELSE Txt(s)

\* pd.read_csv(url): raises when the source cannot be fetched or parsed
read_csv(sh, up) ==
  IF ~up \/ sh.malformed
  THEN [raised |-> TRUE, df |-> EmptyFrame]
  ELSE LET dtypes == [i \in 1..Len(sh.header) |-> InferDtype(sh, i)] IN
       [raised |-> FALSE,
        df |-> [columns |-> sh.header,
                dtypes |-> dtypes,
                rows |-> [r \in 1..Len(sh.rows) |->
                            [i \in 1..Len(sh.header) |->
                               ReadCell(sh.rows[r][i], dtypes[i])]]]]

rename_map(name) ==
  IF name = ESTANCIA_HOSPITALARIA THEN ESTANCIA
  ELSE IF name = INGRESO_POR THEN MOTIVO
  ELSE IF name = FECHA_DE_INGRESO THEN INGRESO
  ELSE name

\* df.columns.str.strip().str.upper(), then df.rename(columns=rename_map)
CleanColumns(df) ==
  [df EXCEPT !.columns = [i \in 1..Len(df.columns) |->
                            rename_map(Upper(Strip(df.columns[i])))]]

\* as DropSinPaciente, with the result of dropna not assigned back
DropSinPaciente_unassigned(df) == df

\* if 'PACIENTE' in df.columns: df = df.dropna(subset=['PACIENTE'])
DropSinPaciente(df) ==
  IF HasColumn(df, PACIENTE)
  THEN LET i == ColumnIndex(df, PACIENTE) IN
       [df EXCEPT !.rows = SelectSeq(df.rows, LAMBDA row : ~IsNa(row[i]))]
  ELSE df

\* pd.to_numeric(..., errors='coerce') on one cell
to_numeric(c) ==
  IF c.k = "str" THEN (IF IsNumeric(c.s) THEN Num(NumValue(c.s)) ELSE NaN) ELSE c

\* as CoerceCama, dropping the rows whose bed is not a number
CoerceCama_dropna(df) ==
  IF HasColumn(df, CAMA)
  THEN LET i == ColumnIndex(df, CAMA) IN
       [df EXCEPT !.dtypes[i] = "float64",
                  !.rows = SelectSeq([r \in 1..Len(df.rows) |->
                                        [df.rows[r] EXCEPT ![i] = to_numeric(df.rows[r][i])]],
                                     LAMBDA row : ~IsNa(row[i]))]
  ELSE df

\* if 'CAMA' in df.columns: df['CAMA'] = pd.to_numeric(df['CAMA'], errors='coerce')
CoerceCama(df) ==
  IF HasColumn(df, CAMA)
  THEN LET i == ColumnIndex(df, CAMA) IN
       [df EXCEPT !.dtypes[i] = "float64",
                  !.rows = [r \in 1..Len(df.rows) |->
                              [df.rows[r] EXCEPT ![i] = to_numeric(df.rows[r][i])]]]
  ELSE df

\* the body of load_data after the fetch: the cleaned table, or the empty
\* table when the try block raised
load_data(fetched) ==
  IF fetched.raised THEN EmptyFrame
  ELSE CoerceCama(DropSinPaciente(CleanColumns(fetched.df)))

(***************************************************************************)
(* The page script after load_data (lines 60-157).                         *)
(***************************************************************************)
\* len(df)
total_pacientes(df) == Len(df.rows)

\* df['ESP'] and its .str accessor: the exception they raise, if any
EspError(df) ==
  IF ~HasColumn(df, ESP) THEN "KeyError"
  ELSE IF df.dtypes[ColumnIndex(df, ESP)] # "object" THEN "AttributeError"
  ELSE "none"

\* len(df[df['ESP'].str.contains(kw, case=False, na=False)])
EspCount(df, kw) ==
  LET esp == Column(df, ESP) IN
  Cardinality({ r \in 1..Len(esp) : esp[r].k = "str" /\ Contains(Upper(esp[r].s), kw) })

hem_count(df) == EspCount(df, HEM)

onc_count(df) == EspCount(df, ONC)

\* set(df['CAMA'].dropna().astype(int).unique()): astype(int) drops the fraction
camas_ocupadas(df) ==
  LET cama == Column(df, CAMA) IN
  { cama[r].n \div 10 : r \in { q \in 1..Len(cama) : ~IsNa(cama[q]) } }

\* sorted(...) of a set of integers
Sorted(S) ==
  IF S = {} THEN <<>>
  ELSE LET lo == CHOOSE x \in S : \A y \in S : x <= y
           hi == CHOOSE x \in S : \A y \in S : x >= y
       IN SelectSeq([i \in 1..(hi - lo + 1) |-> lo + i - 1], LAMBDA x : x \in S)

\* as libres, had the range been written range(621, 642)
libres_off_by_one(ocupadas) == Sorted((PrimeraCama..(FinRango - 2)) \ ocupadas)

\* sorted(list(rango_camas - camas_ocupadas))
libres(ocupadas) == Sorted(rango_camas \ ocupadas)

camas_libres(df) == libres(camas_ocupadas(df))

\* the columns shown, in the order the script lists them
ColsWanted == <<CAMA, ESP, PACIENTE, EVAT, MOTIVO, ESTANCIA, MEDICO>>

cols(df) == SelectSeq(ColsWanted, LAMBDA c : HasColumn(df, c))

\* sort_values(by='CAMA') orders the numbers ascending and puts NaN last
CamaBefore(a, b) == ~IsNa(a) /\ (IsNa(b) \/ a.n < b.n)

RECURSIVE InsertRow(_, _, _)
InsertRow(sorted, row, i) ==
  IF sorted = <<>> THEN <<row>>
  ELSE IF CamaBefore(row[i], Head(sorted)[i]) THEN <<row>> \o sorted
  ELSE <<Head(sorted)>> \o InsertRow(Tail(sorted), row, i)

RECURSIVE SortRows(_, _)
SortRows(rows, i) ==
  IF rows = <<>> THEN <<>>
  ELSE InsertRow(SortRows(SubSeq(rows, 1, Len(rows) - 1), i), rows[Len(rows)], i)

\* df.sort_values(by='CAMA')[cols]
df_sorted(df) ==
  LET sorted == SortRows(df.rows, ColumnIndex(df, CAMA))
      shown == cols(df)
      at == [c \in 1..Len(shown) |-> ColumnIndex(df, shown[c])]
  IN [r \in 1..Len(sorted) |-> [c \in 1..Len(shown) |-> sorted[r][at[c]]]]

\* str(value) of a cell
PyStr(c) ==
  IF c.k = "nan" THEN <<"n","a","n">>
  ELSE IF c.k = "str" THEN c.s
  ELSE NatText(c.n \div 10) \o <<".">> \o NatText(c.n % 10)

\* row.get(name, ''), as text
RowGet(shown, row, name) ==
  IF \E c \in 1..Len(shown) : shown[c] = name
  THEN PyStr(row[CHOOSE c \in 1..Len(shown) : shown[c] = name])
  ELSE <<>>

\* as bg_color, with the ROJO test ahead of the VERDE test
bg_color_rojo_first(shown, row) ==
  LET esp == Upper(RowGet(shown, row, EVAT)) IN
  IF Contains(esp, ROJO) THEN "#fce4ec"
  ELSE IF Contains(esp, VERDE) THEN "#e8f5e9"
  ELSE IF Contains(esp, AMARILLO) THEN "#fffde7"
  ELSE "white"

\* the background colour estilo_simple picks for a row
bg_color(shown, row) ==
  LET esp == Upper(RowGet(shown, row, EVAT)) IN
  IF Contains(esp, VERDE) THEN "#e8f5e9"
  ELSE IF Contains(esp, ROJO) THEN "#fce4ec"
  ELSE IF Contains(esp, AMARILLO) THEN "#fffde7"
  ELSE "white"

\* estilo_simple(row): one style per cell of the row
estilo_simple(shown, row) ==
  LET bg == bg_color(shown, row) IN [c \in 1..Len(row) |-> bg]

\* df['MEDICO'].value_counts(): NaN is not counted; one entry per doctor,
\* by descending count, ties in order of first appearance
RECURSIVE Distinct(_)
Distinct(s) ==
  IF s = <<>> THEN <<>>
  ELSE LET rest == Distinct(SubSeq(s, 1, Len(s) - 1))
           x == s[Len(s)]
       IN IF \E i \in 1..Len(rest) : rest[i] = x THEN rest ELSE Append(rest, x)

Occurrences(s, x) == Cardinality({ i \in 1..Len(s) : s[i] = x })

RECURSIVE InsertCount(_, _)
InsertCount(sorted, e) ==
  IF sorted = <<>> THEN <<e>>
  ELSE IF e[2] > Head(sorted)[2] THEN <<e>> \o sorted
  ELSE <<Head(sorted)>> \o InsertCount(Tail(sorted), e)

RECURSIVE SortCounts(_)
SortCounts(es) ==
  IF es = <<>> THEN <<>>
  ELSE InsertCount(SortCounts(SubSeq(es, 1, Len(es) - 1)), es[Len(es)])

\* as value_counts, with dropna=False: NaN is a group of its own
value_counts_keepna(cells) ==
  LET keys == Distinct(cells)
  IN SortCounts([i \in 1..Len(keys) |-> <<keys[i], Occurrences(cells, keys[i])>>])

value_counts(cells) ==
  LET present == SelectSeq(cells, LAMBDA c : ~IsNa(c))
      keys == Distinct(present)
  IN SortCounts([i \in 1..Len(keys) |-> <<keys[i], Occurrences(present, keys[i])>>])

conteo(df) == value_counts(Column(df, MEDICO))

\* What a session's page shows.  kind: blank (nothing rendered yet), warning
\* (the no-data state), page (the script ran to its end) or error (the script
\* raised; what it had displayed before stays on the page).
BlankView ==
  [kind |-> "blank", exc |-> "none", aviso |-> FALSE, kpis |-> FALSE,
   total_pacientes |-> 0, hem_count |-> 0, onc_count |-> 0,
   camas_ocupadas |-> {}, camas_libres |-> <<>>, lista |-> FALSE, lleno |-> FALSE,
   cols |-> <<>>, tabla |-> <<>>, estilos |-> <<>>,
   conteo |-> <<>>, medicos |-> FALSE, sin_medico |-> FALSE]

Raised(v, exc) == [v EXCEPT !.kind = "error", !.exc = exc]

\* lines 73-126: the counters, the free-bed panel and the patient table
BedBoard(df) ==
  LET ocupadas == camas_ocupadas(df)
      free == libres(ocupadas)
      shown == cols(df)
      tabla == df_sorted(df)
  IN [BlankView EXCEPT
        !.kpis = TRUE,
        !.total_pacientes = total_pacientes(df),
        !.hem_count = hem_count(df),
        !.onc_count = onc_count(df),
        !.camas_ocupadas = ocupadas,
        !.camas_libres = free,
        !.lista = (free # <<>>),
        !.lleno = (free = <<>>),
        !.cols = shown,
        !.tabla = tabla,
        !.estilos = [r \in 1..Len(tabla) |-> estilo_simple(shown, tabla[r])]]

\* lines 129-153: the doctor table; int(conteo['Total'].max()) raises on an
\* empty count
DoctorLoad(df, v) ==
  IF ~HasColumn(df, MEDICO) THEN [v EXCEPT !.kind = "page", !.sin_medico = TRUE]
  ELSE LET counts == conteo(df) IN
       IF counts = <<>> THEN Raised(v, "ValueError")
       ELSE [v EXCEPT !.kind = "page", !.conteo = counts, !.medicos = TRUE]

\* as RenderPage, without the "if not df.empty" guard
RenderPage_unguarded(df) ==
  IF EspError(df) # "none" THEN Raised(BlankView, EspError(df))
  ELSE IF ~HasColumn(df, CAMA) THEN Raised(BlankView, "KeyError")
  ELSE DoctorLoad(df, BedBoard(df))

\* the script from "if not df.empty" on
RenderPage(df) ==
  IF IsEmpty(df) THEN [BlankView EXCEPT !.kind = "warning", !.aviso = TRUE]
  ELSE IF EspError(df) # "none" THEN Raised(BlankView, EspError(df))
  ELSE IF ~HasColumn(df, CAMA) THEN Raised(BlankView, "KeyError")
  ELSE DoctorLoad(df, BedBoard(df))

(***************************************************************************)
(* @st.cache_data(ttl=60): one process-wide slot for load_data().  A call  *)
(* returns the stored value while it is younger than the ttl; otherwise    *)
(* the caller takes the slot's compute lock, looks again, runs load_data   *)
(* and stores what it returns.                                             *)
(***************************************************************************)
TTL == 60

\* how far the clock moves in one step, in seconds
TickSeconds == {20, 40}

NoEntry == [full |-> FALSE, val |-> EmptyFrame, age |-> 0]

Entry(df) == [full |-> TRUE, val |-> df, age |-> 0]

\* the slot holds a value that has not expired
Fresh(c) == c.full /\ c.age < TTL

Returned(df, raised) == [raised |-> raised, df |-> df]

\* the spreadsheets published while the page is being served
LiveA ==
  MakeSheet(HeaderCanonical,
    << [cama |-> <<"6","2","1">>, esp |-> <<"H","E","M">>, paciente |-> <<"A","N","A">>,
        evat |-> <<"r","o","j","o">>, medico |-> <<"D","R"," ","A">>, motivo |-> <<>>],
       [cama |-> <<"6","2","2">>, esp |-> <<"o","n","c">>, paciente |-> <<>>,
        evat |-> <<>>, medico |-> <<>>, motivo |-> <<>>],
       [cama |-> <<"6","a">>, esp |-> <<"O","N","C">>, paciente |-> <<"L","U","Z">>,
        evat |-> <<"v","e","r","d","e">>, medico |-> <<>>, motivo |-> <<>>] >>)

LiveB ==
  MakeSheet(HeaderDecorated,
    << [cama |-> <<"6","3","0">>, esp |-> <<"o","n","c">>, paciente |-> <<"E","V","A">>,
        evat |-> <<>>, medico |-> <<"D","R"," ","B">>, motivo |-> <<"Q","T">>],
       [cama |-> <<>>, esp |-> <<"H","E","M">>, paciente |-> <<>>,
        evat |-> <<>>, medico |-> <<"D","R"," ","B">>, motivo |-> <<>>] >>)

LiveSheets == {LiveA, LiveB, Malformed}

(***************************************************************************)
(* A session runs the script top to bottom on every rerun.                 *)
(***************************************************************************)
\* df = load_data(): the cache lookup
CallLoadData(s) ==
  /\ pc[s] = "idle"
  /\ view' = [view EXCEPT ![s] = BlankView]
  /\ IF Fresh(cache)
     THEN /\ local' = [local EXCEPT ![s] = Returned(cache.val, FALSE)]
          /\ pc' = [pc EXCEPT ![s] = "render"]
     ELSE /\ local' = [local EXCEPT ![s] = Returned(EmptyFrame, FALSE)]
          /\ pc' = [pc EXCEPT ![s] = "miss"]
  /\ UNCHANGED <<sheet, netUp, cache, lock>>

\* a miss: take the compute lock and look again
Acquire(s) ==
  /\ pc[s] = "miss"
  /\ lock = 0
  /\ IF Fresh(cache)
     THEN /\ local' = [local EXCEPT ![s] = Returned(cache.val, FALSE)]
          /\ pc' = [pc EXCEPT ![s] = "render"]
          /\ lock' = lock
     ELSE /\ pc' = [pc EXCEPT ![s] = "fetch"]
          /\ lock' = s
          /\ local' = local
  /\ UNCHANGED <<sheet, netUp, cache, view>>

\* as Fetch, with the parsed table put in the slot before it is cleaned
Fetch_caches_raw(s) ==
  /\ pc[s] = "fetch"
  /\ local' = [local EXCEPT ![s] = read_csv(sheet, netUp)]
  /\ cache' = IF read_csv(sheet, netUp).raised THEN cache
              ELSE Entry(read_csv(sheet, netUp).df)
  /\ pc' = [pc EXCEPT ![s] = "clean"]
  /\ UNCHANGED <<sheet, netUp, lock, view>>

\* load_data, line 34: the blocking fetch
Fetch(s) ==
  /\ pc[s] = "fetch"
  /\ local' = [local EXCEPT ![s] = read_csv(sheet, netUp)]
  /\ pc' = [pc EXCEPT ![s] = "clean"]
  /\ UNCHANGED <<sheet, netUp, cache, lock, view>>

\* as Finish, had load_data let the exception out: nothing is stored
Finish_failure_not_stored(s) ==
  /\ pc[s] = "clean"
  /\ LET df == load_data(local[s]) IN
     /\ cache' = IF local[s].raised THEN cache ELSE Entry(df)
     /\ local' = [local EXCEPT ![s] = Returned(df, local[s].raised)]
  /\ lock' = 0
  /\ pc' = [pc EXCEPT ![s] = "render"]
  /\ UNCHANGED <<sheet, netUp, view>>

\* load_data, lines 36-55, and the store of its result
Finish(s) ==
  /\ pc[s] = "clean"
  /\ LET df == load_data(local[s]) IN
     /\ cache' = Entry(df)
     /\ local' = [local EXCEPT ![s] = Returned(df, local[s].raised)]
  /\ lock' = 0
  /\ pc' = [pc EXCEPT ![s] = "render"]
  /\ UNCHANGED <<sheet, netUp, view>>

\* lines 60-157; df goes out of scope when the script ends
Render(s) ==
  /\ pc[s] = "render"
  /\ view' = [view EXCEPT ![s] = RenderPage(local[s].df)]
  /\ local' = [local EXCEPT ![s] = Returned(EmptyFrame, local[s].raised)]
  /\ pc' = [pc EXCEPT ![s] = "idle"]
  /\ UNCHANGED <<sheet, netUp, cache, lock>>

(***************************************************************************)
(* The environment: time passes, the spreadsheet is edited, the network    *)
(* comes and goes.                                                         *)
(***************************************************************************)
Tick ==
  /\ cache.full
  /\ cache.age < TTL
  /\ \E d \in TickSeconds :
       cache' = [cache EXCEPT !.age = IF cache.age + d > TTL THEN TTL ELSE cache.age + d]
  /\ UNCHANGED <<sheet, netUp, lock, pc, local, view>>

EditSheet ==
  /\ \E sh \in LiveSheets \ {sheet} : sheet' = sh
  /\ UNCHANGED <<netUp, cache, lock, pc, local, view>>

NetFlip ==
  /\ netUp' = ~netUp
  /\ UNCHANGED <<sheet, cache, lock, pc, local, view>>

Idle ==
  /\ cache = NoEntry
  /\ lock = 0
  /\ pc = [s \in Sessions |-> "idle"]
  /\ local = [s \in Sessions |-> Returned(EmptyFrame, FALSE)]
  /\ view = [s \in Sessions |-> BlankView]

Init ==
  /\ sheet \in LiveSheets
  /\ netUp = TRUE
  /\ Idle

Next ==
  \/ \E s \in Sessions : CallLoadData(s)
  \/ \E s \in Sessions : Acquire(s)
  \/ \E s \in Sessions : Fetch(s)
  \/ \E s \in Sessions : Finish(s)
  \/ \E s \in Sessions : Render(s)
  \/ Tick
  \/ EditSheet
  \/ NetFlip

Spec == Init /\ [][Next]_vars

\* The bed board on one drawn spreadsheet: a single session loads it and
\* renders, with the source reachable and no time passing.
InitBoard ==
  /\ sheet \in BoardSheets \cup {Malformed}
  /\ netUp = TRUE
  /\ Idle

NextBoard ==
  \/ CallLoadData(1)
  \/ Acquire(1)
  \/ Fetch(1)
  \/ Finish(1)
  \/ Render(1)

SpecBoard == InitBoard /\ [][NextBoard]_vars

(***************************************************************************)
(* Properties.  Under SpecBoard the cache is filled once and never         *)
(* expires, so cache.val is the loaded table every page was rendered from. *)
(***************************************************************************)
Range(q) == { q[i] : i \in 1..Len(q) }

\* a page on which the script got as far as the bed panel and the patient table
Panels == { s \in Sessions : view[s].kpis }

\* the integer bed values present in a table (absent values excluded)
BedNumbers(df) ==
  IF HasColumn(df, CAMA)
  THEN LET i == ColumnIndex(df, CAMA) IN
       { df.rows[r][i].n \div 10 : r \in { q \in 1..Len(df.rows) : df.rows[q][i].k = "num" } }
  ELSE {}

\* C1 as stated: on every page that shows the bed panel, the free beds and
\* the occupied beds together are exactly the range 621..642, and no bed is
\* both free and occupied.
C1_FreeAndOccupiedAreTheRange ==
  \A s \in Panels :
    /\ view[s].camas_ocupadas = BedNumbers(cache.val)
    /\ Range(view[s].camas_libres) \cup view[s].camas_ocupadas = rango_camas
    /\ Range(view[s].camas_libres) \cap view[s].camas_ocupadas = {}

\* C1, amended: the free beds and the occupied beds that lie in the range
\* together are exactly the range, no bed is both free and occupied, and the
\* occupied set is the set of integer bed values of the loaded table, which
\* may hold beds outside the range.
C1_FreeIsRangeMinusOccupied ==
  \A s \in Panels :
    /\ view[s].camas_ocupadas = BedNumbers(cache.val)
    /\ Range(view[s].camas_libres) \cup (view[s].camas_ocupadas \cap rango_camas) = rango_camas
    /\ Range(view[s].camas_libres) \cap view[s].camas_ocupadas = {}
    /\ Range(view[s].camas_libres) \cup view[s].camas_ocupadas
         = rango_camas \cup view[s].camas_ocupadas

C1_Witness ==
  \E s \in Panels :
    /\ view[s].camas_ocupadas \cap rango_camas # {}
    /\ view[s].camas_ocupadas \ rango_camas # {}

\* C2 as stated: every render ends as the page of a table that has the
\* columns the script looks up (CAMA, ESP) or as the no-data warning of the
\* empty table a missing column was collapsed into; none ends in the
\* unhandled KeyError of a failed column lookup.
C2_MissingColumnsCollapseToEmpty ==
  \A s \in Sessions :
    /\ view[s].exc # "KeyError"
    /\ view[s].kind = "page" => HasColumn(cache.val, CAMA) /\ HasColumn(cache.val, ESP)
    /\ view[s].kind = "warning" <=> view[s].kind # "blank" /\ IsEmpty(cache.val)

\* the no-data state: the warning and nothing else
NoDataPage(v) ==
  /\ v.kind = "warning"
  /\ v.aviso
  /\ ~v.kpis /\ ~v.lista /\ ~v.lleno /\ ~v.medicos /\ ~v.sin_medico
  /\ v.total_pacientes = 0 /\ v.hem_count = 0 /\ v.onc_count = 0
  /\ v.camas_libres = <<>> /\ v.tabla = <<>> /\ v.conteo = <<>>

\* C3: when the fetch or the parse of a load raised, load_data hands the empty
\* table to the script (and to the cache), and the render of that run is the
\* no-data page: the warning, no counter, no table.
C3_FailedLoadRendersNoData ==
  \A s \in Sessions :
    local[s].raised =>
      /\ pc[s] \in {"clean", "render", "idle"}
      /\ pc[s] = "render" => local[s].df = EmptyFrame /\ IsEmpty(local[s].df)
      /\ pc[s] = "idle" => NoDataPage(view[s])

C3_Witness ==
  \E s \in Sessions : local[s].raised /\ pc[s] = "idle" /\ view[s].kind = "warning"

RECURSIVE SumCounts(_)
SumCounts(c) == IF c = <<>> THEN 0 ELSE Head(c)[2] + SumCounts(Tail(c))

\* rows of a table whose cell in the named column is not NaN
RowsWith(df, name) ==
  IF HasColumn(df, name)
  THEN LET i == ColumnIndex(df, name) IN
       Cardinality({ r \in 1..Len(df.rows) : ~IsNa(df.rows[r][i]) })
  ELSE 0

\* C4 as stated: the counts of the doctor table add up to the number of rows
\* of the loaded table, the number shown as total patients.
C4_DoctorCountsSumToTotal ==
  \A s \in Sessions :
    view[s].medicos =>
      /\ SumCounts(view[s].conteo) = Len(cache.val.rows)
      /\ SumCounts(view[s].conteo) = view[s].total_pacientes

\* C4, amended: the counts of the doctor table add up to the number of rows
\* that have a doctor value; rows without one are in no group, so the sum is
\* the total only when every row has a doctor.
C4_DoctorCountsSumToRowsWithDoctor ==
  \A s \in Sessions :
    view[s].medicos =>
      /\ view[s].total_pacientes = Len(cache.val.rows)
      /\ SumCounts(view[s].conteo) = RowsWith(cache.val, MEDICO)
      /\ SumCounts(view[s].conteo) <= view[s].total_pacientes
      /\ \A i \in 1..Len(view[s].conteo) : view[s].conteo[i][2] >= 1

C4_Witness ==
  \E s \in Sessions :
    /\ view[s].medicos
    /\ Len(view[s].conteo) > 1
    /\ SumCounts(view[s].conteo) < view[s].total_pacientes

\* the patient name of a row of a table: none when the table has no
\* PACIENTE column or the cell is NaN
HasName(df, r) ==
  HasColumn(df, PACIENTE) /\ ~IsNa(df.rows[r][ColumnIndex(df, PACIENTE)])

SheetColumns == [i \in 1..Len(sheet.header) |-> Upper(Strip(sheet.header[i]))]

SheetHas(name) == \E i \in 1..Len(sheet.header) : SheetColumns[i] = name

SheetIndex(name) == CHOOSE i \in 1..Len(sheet.header) : SheetColumns[i] = name

\* rows of the published sheet with a non-empty field under the named column
SheetRowsWith(name) ==
  IF SheetHas(name)
  THEN Cardinality({ r \in 1..Len(sheet.rows) : sheet.rows[r][SheetIndex(name)] # <<>> })
  ELSE 0

ShownAt(v, name) ==
  IF \E c \in 1..Len(v.cols) : v.cols[c] = name
  THEN CHOOSE c \in 1..Len(v.cols) : v.cols[c] = name
  ELSE 0

\* rows of a sequence of rows whose cell at position i is NaN
NaNRows(rows, i) == Cardinality({ r \in 1..Len(rows) : IsNa(rows[r][i]) })

\* published rows that have a name and a bed text that is empty or no number
SheetNamedRowsWithoutBed ==
  Cardinality({ r \in 1..Len(sheet.rows) :
                  /\ sheet.rows[r][SheetIndex(PACIENTE)] # <<>>
                  /\ ~IsNumeric(sheet.rows[r][SheetIndex(CAMA)]) })

\* C6: a published row with a patient name and a bed that is empty or not a
\* number stays in the loaded table, with no bed; on a page that shows the
\* panels it adds nothing to the occupied set and takes no bed from the free
\* list, it is counted in total patients, and it is a row of the patient
\* table, which is ordered by ascending bed number with the bedless rows last.
C6_BedlessRowIsKept ==
  /\ cache.full /\ ~sheet.malformed /\ SheetHas(PACIENTE) /\ SheetHas(CAMA) =>
       /\ HasColumn(cache.val, CAMA)
       /\ NaNRows(cache.val.rows, ColumnIndex(cache.val, CAMA)) = SheetNamedRowsWithoutBed
       /\ Len(cache.val.rows) = SheetRowsWith(PACIENTE)
  /\ \A s \in Panels :
       LET v == view[s]
           df == cache.val
           at == [c \in 1..Len(v.cols) |-> ColumnIndex(df, v.cols[c])]
           bed == ShownAt(v, CAMA)
       IN /\ v.total_pacientes = Len(df.rows)
          /\ v.camas_ocupadas = BedNumbers(df)
          /\ Cardinality(v.camas_ocupadas)
               <= Len(df.rows) - NaNRows(df.rows, ColumnIndex(df, CAMA))
          /\ rango_camas \ BedNumbers(df) = Range(v.camas_libres)
          /\ Len(v.tabla) = Len(df.rows)
          /\ bed > 0
          /\ NaNRows(v.tabla, bed) = NaNRows(df.rows, ColumnIndex(df, CAMA))
          /\ \A q \in 1..Len(df.rows) :
               \E r \in 1..Len(v.tabla) :
                 v.tabla[r] = [c \in 1..Len(v.cols) |-> df.rows[q][at[c]]]
          /\ \A r \in 1..(Len(v.tabla) - 1) :
               /\ IsNa(v.tabla[r][bed]) => IsNa(v.tabla[r + 1][bed])
               /\ ~IsNa(v.tabla[r + 1][bed]) => v.tabla[r][bed].n <= v.tabla[r + 1][bed].n

C6_Witness ==
  \E s \in Panels :
    LET v == view[s] IN
    /\ SheetHas(PACIENTE) /\ SheetHas(CAMA)
    /\ SheetNamedRowsWithoutBed > 0
    /\ \E r \in 1..Len(v.tabla) :
         /\ IsNa(v.tabla[r][ShownAt(v, CAMA)])
         /\ ~IsNa(v.tabla[r][ShownAt(v, PACIENTE)])
    /\ \E r \in 1..Len(v.tabla) : ~IsNa(v.tabla[r][ShownAt(v, CAMA)])
    /\ v.total_pacientes = Len(v.tabla)

\* C7 as stated: every render of a non-empty table shows the full alert when
\* every bed of the range is occupied, and the free-bed list when some bed of
\* the range is not.
C7_EveryRenderShowsAlertOrList ==
  \A s \in Sessions :
    view[s].kind # "blank" /\ ~IsEmpty(cache.val) =>
      IF rango_camas \subseteq BedNumbers(cache.val)
      THEN view[s].lleno /\ ~view[s].lista /\ view[s].camas_libres = <<>>
      ELSE view[s].lista /\ ~view[s].lleno /\ view[s].camas_libres # <<>>

\* The same on the pages that reach the bed panel (line 69 did not raise):
\* the alert is shown exactly when the range is full.
PanelShowsAlertOrList ==
  \A s \in Panels :
    IF rango_camas \subseteq BedNumbers(cache.val)
    THEN view[s].lleno /\ ~view[s].lista /\ view[s].camas_libres = <<>>
    ELSE view[s].lista /\ ~view[s].lleno /\ view[s].camas_libres # <<>>

FullWardPanel == \E s \in Panels : view[s].lleno

\* a table is fully cleaned: normalised column names, no row without a name
\* under PACIENTE, only numbers and NaN under CAMA
Cleaned(df) ==
  /\ \A i \in 1..Len(df.columns) : df.columns[i] = Upper(Strip(df.columns[i]))
  /\ HasColumn(df, PACIENTE) => NaNRows(df.rows, ColumnIndex(df, PACIENTE)) = 0
  /\ HasColumn(df, CAMA) =>
       \A r \in 1..Len(df.rows) : df.rows[r][ColumnIndex(df, CAMA)].k # "str"

\* what one run of load_data can return: the cleaned table of one published
\* sheet, or the empty table
Snapshots == { load_data(read_csv(sh, up)) : sh \in LiveSheets, up \in BOOLEAN }

\* the tables a render can observe: the slot's value, and what load_data()
\* has handed to a script that is about to render
Observed ==
  (IF cache.full THEN {cache.val} ELSE {})
    \cup { local[s].df : s \in { q \in Sessions : pc[q] = "render" } }

C8_ObservedIsSnapshot == \A df \in Observed : df \in Snapshots /\ Cleaned(df)

C8_Step ==
  /\ \A s \in Sessions :
       pc[s] # "render" /\ pc'[s] = "render" => cache'.full /\ local'[s].df = cache'.val
  /\ cache' # cache /\ cache'.age = 0 => ~Fresh(cache) /\ cache'.full

\* C8: every table a render observes, also while another session recomputes
\* the cached load, is the complete result of one load_data run (the cleaned
\* table of one fetch, or the empty table); what load_data() hands to a
\* script is the slot's value at that moment; and the slot is written only
\* when it is empty or its 60 seconds have elapsed.
C8_RendersSeeWholeSnapshots == []C8_ObservedIsSnapshot /\ [][C8_Step]_vars

C8_Witness ==
  \E s \in Sessions, q \in Sessions :
    /\ pc[s] = "clean" /\ ~local[s].raised
    /\ pc[q] = "render" /\ ~IsEmpty(local[q].df)
    /\ local[q].df # load_data(local[s])

\* the triage text of a row of the patient table, upper-cased; empty when the
\* table has no EVAT column or the cell is not text
Triage(v, r) ==
  LET c == ShownAt(v, EVAT) IN
  IF c > 0 /\ v.tabla[r][c].k = "str" THEN Upper(v.tabla[r][c].s) ELSE <<>>

OneStyle(v, r) ==
  /\ Len(v.estilos[r]) = Len(v.tabla[r])
  /\ \A c \in 1..Len(v.estilos[r]) : v.estilos[r][c] = v.estilos[r][1]

\* C9 as stated: a triage text containing VERDE gives green, ROJO red,
\* AMARILLO yellow, none of them (or no text) white; every cell of the row
\* gets that category.
C9_KeywordGivesItsColour ==
  \A s \in Panels :
    \A r \in 1..Len(view[s].tabla) :
      LET e == Triage(view[s], r)
          bg == view[s].estilos[r][1]
      IN /\ OneStyle(view[s], r)
         /\ Contains(e, VERDE) => bg = "#e8f5e9"
         /\ Contains(e, ROJO) => bg = "#fce4ec"
         /\ Contains(e, AMARILLO) => bg = "#fffde7"
         /\ ~Contains(e, VERDE) /\ ~Contains(e, ROJO) /\ ~Contains(e, AMARILLO) => bg = "white"

\* C9, amended: the first keyword found in the order VERDE, ROJO, AMARILLO
\* decides: VERDE gives green; ROJO without VERDE gives red; AMARILLO without
\* VERDE and ROJO gives yellow; none of them, or no text, gives white.  Every
\* cell of the row gets that category, rows with the same triage cell get the
\* same category, and the loaded table keeps all its rows.
C9_FirstKeywordGivesColour ==
  \A s \in Panels :
    /\ Len(view[s].estilos) = Len(view[s].tabla)
    /\ Len(view[s].tabla) = Len(cache.val.rows)
    /\ \A r \in 1..Len(view[s].tabla) :
         LET e == Triage(view[s], r)
             bg == view[s].estilos[r][1]
         IN /\ OneStyle(view[s], r)
            /\ bg = IF Contains(e, VERDE) THEN "#e8f5e9"
                    ELSE IF Contains(e, ROJO) THEN "#fce4ec"
                    ELSE IF Contains(e, AMARILLO) THEN "#fffde7"
                    ELSE "white"
            /\ \A q \in 1..Len(view[s].tabla) :
                 ShownAt(view[s], EVAT) > 0
                 /\ view[s].tabla[q][ShownAt(view[s], EVAT)] = view[s].tabla[r][ShownAt(view[s], EVAT)]
                 => view[s].estilos[q] = view[s].estilos[r]

C9_Witness ==
  \E s \in Panels :
    \E r \in 1..Len(view[s].tabla) :
      /\ Contains(Triage(view[s], r), VERDE)
      /\ Contains(Triage(view[s], r), ROJO)
      /\ view[s].estilos[r][1] = "#e8f5e9"

C10_FetchOnlyWhenExpired ==
  \A s \in Sessions : pc[s] \in {"fetch", "clean"} => ~Fresh(cache) /\ lock = s

C10_Step ==
  \A s \in Sessions :
    /\ pc[s] = "clean" /\ pc'[s] = "render" /\ local[s].raised =>
         cache' = Entry(EmptyFrame) /\ local'[s].df = EmptyFrame
    /\ Fresh(cache) /\ pc[s] \in {"idle", "miss"} /\ pc'[s] # pc[s] =>
         pc'[s] = "render" /\ local'[s].df = cache.val /\ cache' = cache
    /\ pc[s] = "render" /\ pc'[s] = "idle" /\ IsEmpty(local[s].df) => NoDataPage(view'[s])
    /\ pc[s] # "fetch" /\ pc'[s] = "fetch" => ~Fresh(cache)

\* C10: the empty table of a failed load is stored in the slot like any
\* result; while it is younger than 60 seconds every call of load_data()
\* returns it without a fetch and the page is the no-data warning, whatever
\* the state of the source; a fetch starts only from an empty or expired
\* slot, by the one session that holds the compute lock.
C10_FailureIsCachedForItsLifetime == []C10_FetchOnlyWhenExpired /\ [][C10_Step]_vars

C10_Witness ==
  \E s \in Sessions :
    /\ Fresh(cache) /\ IsEmpty(cache.val)
    /\ netUp /\ ~sheet.malformed
    /\ pc[s] = "idle" /\ ~local[s].raised /\ view[s].kind = "warning"

====
